---- MODULE Spec2Model ----
(***************************************************************************)
(* PortFlow clearing agent: the container clearance state machine of       *)
(* core/api.py over the Container table of core/models.py.                 *)
(*                                                                         *)
(* The table is the variable db (container_id -> row).  Every request      *)
(* handler runs in a worker: it loads the row into a private in-memory     *)
(* instance, checks its guards, mutates the instance and writes the whole  *)
(* instance back with Model.save(), once inside Container.add_log and, in  *)
(* most handlers, once more at the end.  The handlers take no lock and     *)
(* open no transaction, so the database accesses of two workers can        *)
(* interleave: Spec lets them, SeqSpec runs one request at a time,         *)
(* ScenarioSpec follows the single container MAEU4567890,                  *)
(* ValidationSpec applies validate_container_data to dictionaries of its   *)
(* own, and RecoverySpec hands the container, after any requests served    *)
(* one at a time, to a caller who works towards its release and answers    *)
(* each refusal with the request that lifts it.                            *)
(*                                                                         *)
(* Abstractions: the values of datetime.now() are the token NOW (no guard  *)
(* reads a timestamp); a log entry keeps its actor and action and, for a   *)
(* payment, the amount that its details state; the columns                 *)
(* no handler reads after the insert (importer_address, the two ports,     *)
(* cargo_description, original_filename, created_at, updated_at) are left  *)
(* out.  The two decimal columns are counted in their own resolution of    *)
(* two places: cargo_weight in hundredths of a kilogram, money in kobo     *)
(* (hundredths of a naira).                                                *)
(***************************************************************************)
EXTENDS Integers, Sequences, FiniteSets, TLC

VARIABLES db, req, mode, overlaps

vars == <<db, req, mode, overlaps>>

(* ------------------------------ bounds -------------------------------- *)

\* Number of request workers that may be in flight at once.
NumWorkers == 2

\* Audit entries held by the whole table, over which no request that would
\* append another one is started: MaxLogs when requests run one at a time,
\* MaxOverlapLogs when they overlap, MaxScenarioLogs when a single container
\* is followed through its whole clearance.
MaxLogs == 4

MaxOverlapLogs == 3

MaxScenarioLogs == 5

\* Audit entries the container of RecoverySpec holds before the caller who
\* works towards its release takes over.
MaxPreludeLogs == 4

\* Requests that a run of Spec starts while another request is in flight.
MaxOverlaps == 1

Workers == 1..NumWorkers

(* --------------------------- vocabularies ----------------------------- *)

\* Python None / SQL NULL of a text column.
NULL == "NULL"

\* None of a numeric column is the empty tuple, a number n is <<n>>.
None == <<>>

Some(n) == <<n>>

NOW == "NOW"

OverallStatus ==
    {"PENDING_VALIDATION", "VALIDATED", "PENDING_CUSTOMS", "CUSTOMS_CLEARED",
     "PENDING_INSPECTION", "INSPECTION_PASSED", "RELEASED", "FAILED"}

CustomsStatus == {"PENDING", "PAYMENT_REQUIRED", "PAID", "CLEARED", "REJECTED"}

ShippingStatus == {"IN_TRANSIT", "ARRIVED", "DISCHARGED", "READY_FOR_PICKUP"}

InspectionStatus == {"NOT_SCHEDULED", "SCHEDULED", "IN_PROGRESS", "PASSED", "FAILED"}

(* ------------------- validate_container_data (utils.py) --------------- *)

UpperCase ==
    {"A", "B", "C", "D", "E", "F", "G", "H", "I", "J", "K", "L", "M",
     "N", "O", "P", "Q", "R", "S", "T", "U", "V", "W", "X", "Y", "Z"}

Digits == {"0", "1", "2", "3", "4", "5", "6", "7", "8", "9"}

\* A Python "$" also matches just before a final newline.
StripFinalNewline(s) ==
    IF Len(s) > 0 /\ s[Len(s)] = "\n" THEN SubSeq(s, 1, Len(s) - 1) ELSE s

\* re.match(r'^[A-Z]{4}\d{7}$', s), s a tuple of characters.
MatchContainerId(s) ==
    LET t == StripFinalNewline(s)
    IN  /\ Len(t) = 11
        /\ \A i \in 1..4 : t[i] \in UpperCase
        /\ \A i \in 5..11 : t[i] \in Digits

\* re.match(r'^\d{10,12}$', s)
MatchTin(s) ==
    LET t == StripFinalNewline(s)
    IN  /\ Len(t) \in 10..12
        /\ \A i \in 1..Len(t) : t[i] \in Digits

\* s.startswith("DEMO")
StartsWithDEMO(s) ==
    Len(s) >= 4 /\ SubSeq(s, 1, 4) = <<"D", "E", "M", "O">>

ErrIdRequired == "Container ID is required"

ErrIdFormat == "Container ID format is invalid (expected: 4 letters + 7 digits)"

ErrTinFormat == "TIN format is invalid (expected: 10-12 digits)"

ErrVessel == "Vessel name is missing (recommended)"

ErrImporter == "Importer name is missing (recommended)"

\* Truth value of a text value held as a string (None and "" are false).
TruthyStr(s) == s # NULL /\ s # ""

IdMAEU == "MAEU4567890"

\* The fallback identifier of parse_bill_of_lading: "DEMO" and seven digits.
IdDEMO == "DEMO0000042"

TinOk == "1234567890"

\* Further identifiers and a TIN a caller of validate_container_data may
\* pass: lower-case letters, a digit short, a letter among the digits, the
\* bare prefix DEMO, a well-formed identifier followed by a newline, and a
\* TIN of five digits.
IdLower == "maeu4567890"

IdShort == "MAEU456789"

IdMixed == "MAEU45678X0"

IdDemoOnly == "DEMO"

IdNewline == "MAEU4567890\n"

TinShort == "12345"

\* The characters of the text values the model uses, for the two patterns.
Chars(s) ==
    CASE s = IdMAEU     -> <<"M", "A", "E", "U", "4", "5", "6", "7", "8", "9", "0">>
      [] s = IdDEMO     -> <<"D", "E", "M", "O", "0", "0", "0", "0", "0", "4", "2">>
      [] s = TinOk      -> <<"1", "2", "3", "4", "5", "6", "7", "8", "9", "0">>
      [] s = IdLower    -> <<"m", "a", "e", "u", "4", "5", "6", "7", "8", "9", "0">>
      [] s = IdShort    -> <<"M", "A", "E", "U", "4", "5", "6", "7", "8", "9">>
      [] s = IdMixed    -> <<"M", "A", "E", "U", "4", "5", "6", "7", "8", "X", "0">>
      [] s = IdDemoOnly -> <<"D", "E", "M", "O">>
      [] s = IdNewline  -> <<"M", "A", "E", "U", "4", "5", "6", "7", "8", "9", "0", "\n">>
      [] s = TinShort   -> <<"1", "2", "3", "4", "5">>
      [] OTHER          -> <<>>

\* data: the text values container_id, tin, vessel_name and importer_name,
\* each a string or NULL (data.get of a missing key).
validate_container_data(data) ==
    (IF ~TruthyStr(data.container_id) THEN <<ErrIdRequired>> ELSE <<>>)
    \o (IF /\ TruthyStr(data.container_id)
           /\ ~MatchContainerId(Chars(data.container_id))
           /\ ~StartsWithDEMO(Chars(data.container_id))
        THEN <<ErrIdFormat>> ELSE <<>>)
    \o (IF TruthyStr(data.tin) /\ ~MatchTin(Chars(data.tin))
        THEN <<ErrTinFormat>> ELSE <<>>)
    \o (IF ~TruthyStr(data.vessel_name) THEN <<ErrVessel>> ELSE <<>>)
    \o (IF ~TruthyStr(data.importer_name) THEN <<ErrImporter>> ELSE <<>>)

\* The dictionaries validate_container_data is applied to.
Records ==
    [container_id  : {NULL, "", IdMAEU, IdDEMO, IdLower, IdShort, IdMixed,
                      IdDemoOnly, IdNewline},
     tin           : {NULL, TinOk, TinShort},
     vessel_name   : {NULL, "MV LAGOS"},
     importer_name : {NULL, "ACME LTD"}]

(* ----------------------- Container (models.py) ------------------------ *)

\* Results of BillOfLadingParser.parse_bill_of_lading together with the
\* uploaded file's name: pdf is file.name.lower().endswith('.pdf'), success
\* is parse_result["success"], the rest is parse_result["data"].
Doc(pdf, success, id, vessel, importer, tin, weight) ==
    [pdf |-> pdf, success |-> success, container_id |-> id, vessel_name |-> vessel,
     importer_name |-> importer, tin |-> tin, cargo_weight |-> weight]

\* The weights are 18500 kg, none, 0 kg and 1.10 kg.
Docs ==
    { Doc(TRUE, TRUE, IdMAEU, "MV LAGOS", "ACME LTD", TinOk, Some(1850000)),
      Doc(TRUE, TRUE, IdMAEU, NULL, "ACME LTD", NULL, None),
      Doc(TRUE, TRUE, IdDEMO, "MV APAPA", "BETA PLC", NULL, Some(0)),
      Doc(TRUE, TRUE, IdDEMO, "MV APAPA", "BETA PLC", NULL, Some(110)),
      Doc(TRUE, FALSE, NULL, NULL, NULL, NULL, None),
      Doc(FALSE, TRUE, IdDEMO, "MV APAPA", "BETA PLC", NULL, Some(0)) }

Ids == {IdMAEU, IdDEMO}

\* Amounts a caller may offer to pay_customs_duty: nothing, 150000.00 and
\* 185000.00 naira.
PayAmounts == {0, 15000000, 18500000}

\* One element of Container.logs (timestamp and details left out).
LogEntry(actor, action) == [actor |-> actor, action |-> action]

\* The entry of pay_customs_duty, with the amount its details state.
PaymentEntry(amount) ==
    [actor |-> "agent", action |-> "customs_payment", amount |-> amount]

\* Container.objects.create without the shipping_status argument: the
\* column takes the model's default.
NewContainer_DefaultShipping(data) ==
    [container_id        |-> data.container_id,
     vessel_name         |-> data.vessel_name,
     importer_name       |-> data.importer_name,
     tin                 |-> data.tin,
     cargo_weight        |-> data.cargo_weight,
     document_validated  |-> Len(validate_container_data(data)) = 0,
     validation_errors   |-> validate_container_data(data),
     overall_status      |-> "PENDING_VALIDATION",
     shipping_status     |-> "IN_TRANSIT",
     customs_status      |-> "PENDING",
     inspection_status   |-> "NOT_SCHEDULED",
     customs_duty_amount |-> None,
     customs_paid_at     |-> NULL,
     logs                |-> <<>>]

\* Container.objects.create without the two validation arguments: the
\* columns take the model's defaults.
NewContainer_NotValidated(data) ==
    [container_id        |-> data.container_id,
     vessel_name         |-> data.vessel_name,
     importer_name       |-> data.importer_name,
     tin                 |-> data.tin,
     cargo_weight        |-> data.cargo_weight,
     document_validated  |-> FALSE,
     validation_errors   |-> <<>>,
     overall_status      |-> "PENDING_VALIDATION",
     shipping_status     |-> "DISCHARGED",
     customs_status      |-> "PENDING",
     inspection_status   |-> "NOT_SCHEDULED",
     customs_duty_amount |-> None,
     customs_paid_at     |-> NULL,
     logs                |-> <<>>]

\* The keyword arguments of Container.objects.create in upload_bill_of_lading
\* and the defaults of the model's fields.
NewContainer(data) ==
    [container_id        |-> data.container_id,
     vessel_name         |-> data.vessel_name,
     importer_name       |-> data.importer_name,
     tin                 |-> data.tin,
     cargo_weight        |-> data.cargo_weight,
     document_validated  |-> Len(validate_container_data(data)) = 0,
     validation_errors   |-> validate_container_data(data),
     overall_status      |-> "PENDING_VALIDATION",
     shipping_status     |-> "DISCHARGED",
     customs_status      |-> "PENDING",
     inspection_status   |-> "NOT_SCHEDULED",
     customs_duty_amount |-> None,
     customs_paid_at     |-> NULL,
     logs                |-> <<>>]

\* The in-memory effect of Container.add_log: self.logs.append(log_entry).
\* Its self.save() is the database write of the step AddLog.
add_log(c, entry) == [c EXCEPT !.logs = Append(c.logs, entry)]

\* A value written to a DecimalField(decimal_places=2) column is rounded to
\* the hundredth.  A Decimal in memory is <<n>>, n hundredths, or <<n, e>>
\* when it holds e > 0 units of 10^-18 more than n hundredths.
Quantize(d) == IF d = None THEN None ELSE Some(d[1])

\* Model.save() of an instance that has a row: every column is written.
SaveRow(store, c) ==
    [k \in DOMAIN store \cup {c.container_id} |->
        IF k = c.container_id
        THEN [c EXCEPT !.customs_duty_amount = Quantize(@)]
        ELSE store[k]]

(* ----------------------- request handlers (api.py) -------------------- *)

\* What a handler has decided once it has loaded the row and run up to its
\* first database write: the response it will return, the in-memory
\* instance, the entry it passes to add_log (<<>> when it logs nothing),
\* and whether a container.save() follows.
Outcome(result, c, entry, final, resp) ==
    [result |-> result, c |-> c, entry |-> entry, final |-> final, resp |-> resp]

NoResp == [none |-> TRUE]

\* A request that ends before any write.
Reject(result, c) == Outcome(result, c, <<>>, FALSE, NoResp)

\* validate_container running the validation on every request.
ValidateLogic_AlwaysRuns(c, force_revalidate) ==
    LET errors == validate_container_data(
                      [container_id  |-> c.container_id,
                       vessel_name   |-> c.vessel_name,
                       importer_name |-> c.importer_name,
                       tin           |-> c.tin])
        c1 == [c EXCEPT !.validation_errors = errors,
                        !.document_validated = (Len(errors) = 0)]
    IN  IF c1.document_validated
        THEN Outcome("OK", [c1 EXCEPT !.overall_status = "VALIDATED"],
                     <<LogEntry("agent", "validation")>>, TRUE,
                     [is_valid |-> TRUE, errors |-> errors])
        ELSE Outcome("OK", c1,
                     <<LogEntry("agent", "validation_failed")>>, TRUE,
                     [is_valid |-> FALSE, errors |-> errors])

\* validate_container sending a container that fails validation back to
\* PENDING_VALIDATION.
ValidateLogic_FailureResets(c, force_revalidate) ==
    IF force_revalidate \/ ~c.document_validated
    THEN LET errors == validate_container_data(
                           [container_id  |-> c.container_id,
                            vessel_name   |-> c.vessel_name,
                            importer_name |-> c.importer_name,
                            tin           |-> c.tin])
             c1 == [c EXCEPT !.validation_errors = errors,
                             !.document_validated = (Len(errors) = 0)]
         IN  IF c1.document_validated
             THEN Outcome("OK", [c1 EXCEPT !.overall_status = "VALIDATED"],
                          <<LogEntry("agent", "validation")>>, TRUE,
                          [is_valid |-> TRUE, errors |-> errors])
             ELSE Outcome("OK", [c1 EXCEPT !.overall_status = "PENDING_VALIDATION"],
                          <<LogEntry("agent", "validation_failed")>>, TRUE,
                          [is_valid |-> FALSE, errors |-> errors])
    ELSE Outcome("OK", c, <<>>, FALSE,
                 [is_valid |-> c.document_validated, errors |-> c.validation_errors])

\* validate_container, after get_object_or_404.
ValidateLogic(c, force_revalidate) ==
    IF force_revalidate \/ ~c.document_validated
    THEN LET errors == validate_container_data(
                           [container_id  |-> c.container_id,
                            vessel_name   |-> c.vessel_name,
                            importer_name |-> c.importer_name,
                            tin           |-> c.tin])
             c1 == [c EXCEPT !.validation_errors = errors,
                             !.document_validated = (Len(errors) = 0)]
         IN  IF c1.document_validated
             THEN Outcome("OK", [c1 EXCEPT !.overall_status = "VALIDATED"],
                          <<LogEntry("agent", "validation")>>, TRUE,
                          [is_valid |-> TRUE, errors |-> errors])
             ELSE Outcome("OK", c1,
                          <<LogEntry("agent", "validation_failed")>>, TRUE,
                          [is_valid |-> FALSE, errors |-> errors])
    ELSE Outcome("OK", c, <<>>, FALSE,
                 [is_valid |-> c.document_validated, errors |-> c.validation_errors])

\* The flat duty of check_customs_status, Decimal('150000.00'), in kobo.
FlatDuty == 15000000

\* The real number cargo_weight * 100 * 0.10 in kobo, of a weight in
\* hundredths of a kilogram.
DutyFor(weight) == (weight * 100) \div 10

\* float(cargo_weight) * 100 * 0.10 is computed in binary64, and
\* Decimal(float) is the float's exact value.  FloatExcess is what that value
\* holds beyond DutyFor, in units of 10^-18 naira rounded down, for the
\* weights of Docs that reach the computation:
\*   float(Decimal('18500.00')) * 100 * 0.10 = 185000.0 exactly,
\*   float(Decimal('1.10')) * 100 * 0.10 =
\*       11.0000000000000017763568394002504646778106689453125.
FloatExcess(weight) ==
    CASE weight = 1850000 -> 0
      [] weight = 110     -> 1776

\* Decimal(estimated_value * 0.10)
DecimalOfDuty(weight) ==
    IF FloatExcess(weight) = 0
    THEN Some(DutyFor(weight))
    ELSE <<DutyFor(weight), FloatExcess(weight)>>

\* check_customs_status returning the duty as amount_due whatever the customs
\* status.
CheckCustomsLogic_AmountAlways(c) ==
    LET c1 == IF c.customs_duty_amount = None
              THEN [c EXCEPT
                      !.customs_duty_amount =
                          IF c.cargo_weight # None /\ c.cargo_weight[1] # 0
                          THEN DecimalOfDuty(c.cargo_weight[1])
                          ELSE Some(FlatDuty),
                      !.customs_status =
                          IF c.customs_status = "PENDING"
                          THEN "PAYMENT_REQUIRED" ELSE c.customs_status]
              ELSE c
    IN  Outcome("OK", c1, <<>>, c.customs_duty_amount = None,
                [customs_status |-> c1.customs_status,
                 amount_due |-> c1.customs_duty_amount])

\* check_customs_status, after get_object_or_404.
CheckCustomsLogic(c) ==
    LET c1 == IF c.customs_duty_amount = None
              THEN [c EXCEPT
                      !.customs_duty_amount =
                          IF c.cargo_weight # None /\ c.cargo_weight[1] # 0
                          THEN DecimalOfDuty(c.cargo_weight[1])
                          ELSE Some(FlatDuty),
                      !.customs_status =
                          IF c.customs_status = "PENDING"
                          THEN "PAYMENT_REQUIRED" ELSE c.customs_status]
              ELSE c
    IN  Outcome("OK", c1, <<>>, c.customs_duty_amount = None,
                [customs_status |-> c1.customs_status,
                 amount_due |-> IF c1.customs_status = "PAYMENT_REQUIRED"
                                THEN c1.customs_duty_amount ELSE None])

\* pay_customs_duty writing the instance back on the underpayment branch.
PayLogic_SaveOnReject(c, amount) ==
    IF c.customs_status = "PAID"
    THEN Reject("AlreadyPaid", c)
    ELSE IF /\ c.customs_duty_amount # None
            /\ c.customs_duty_amount[1] # 0
            /\ amount < c.customs_duty_amount[1]
    THEN Outcome("InsufficientPayment", [c EXCEPT !.customs_paid_at = NOW],
                 <<>>, TRUE, NoResp)
    ELSE Outcome("OK",
                 [c EXCEPT !.customs_status = "PAID",
                           !.customs_paid_at = NOW,
                           !.overall_status = "CUSTOMS_CLEARED"],
                 <<PaymentEntry(amount)>>, TRUE,
                 [status |-> "PAID", amount_paid |-> amount])

\* pay_customs_duty comparing the payment with the flat duty instead of the
\* container's own.
PayLogic_FlatGuard(c, amount) ==
    IF c.customs_status = "PAID"
    THEN Reject("AlreadyPaid", c)
    ELSE IF c.customs_duty_amount # None /\ amount < FlatDuty
    THEN Reject("InsufficientPayment", c)
    ELSE Outcome("OK",
                 [c EXCEPT !.customs_status = "PAID",
                           !.customs_paid_at = NOW,
                           !.overall_status = "CUSTOMS_CLEARED"],
                 <<PaymentEntry(amount)>>, TRUE,
                 [status |-> "PAID", amount_paid |-> amount])

\* pay_customs_duty without the already-paid guard.
PayLogic_NoPaidGuard(c, amount) ==
    IF /\ c.customs_duty_amount # None
       /\ c.customs_duty_amount[1] # 0
       /\ amount < c.customs_duty_amount[1]
    THEN Reject("InsufficientPayment", c)
    ELSE Outcome("OK",
                 [c EXCEPT !.customs_status = "PAID",
                           !.customs_paid_at = NOW,
                           !.overall_status = "CUSTOMS_CLEARED"],
                 <<PaymentEntry(amount)>>, TRUE,
                 [status |-> "PAID", amount_paid |-> amount])

\* pay_customs_duty without the customs_paid_at stamp.
PayLogic_NoStamp(c, amount) ==
    IF c.customs_status = "PAID"
    THEN Reject("AlreadyPaid", c)
    ELSE IF /\ c.customs_duty_amount # None
            /\ c.customs_duty_amount[1] # 0
            /\ amount < c.customs_duty_amount[1]
    THEN Reject("InsufficientPayment", c)
    ELSE Outcome("OK",
                 [c EXCEPT !.customs_status = "PAID",
                           !.overall_status = "CUSTOMS_CLEARED"],
                 <<PaymentEntry(amount)>>, TRUE,
                 [status |-> "PAID", amount_paid |-> amount])

\* pay_customs_duty refusing a payment of exactly the assessed duty.
PayLogic_StrictGuard(c, amount) ==
    IF c.customs_status = "PAID"
    THEN Reject("AlreadyPaid", c)
    ELSE IF /\ c.customs_duty_amount # None
            /\ c.customs_duty_amount[1] # 0
            /\ amount <= c.customs_duty_amount[1]
    THEN Reject("InsufficientPayment", c)
    ELSE Outcome("OK",
                 [c EXCEPT !.customs_status = "PAID",
                           !.customs_paid_at = NOW,
                           !.overall_status = "CUSTOMS_CLEARED"],
                 <<PaymentEntry(amount)>>, TRUE,
                 [status |-> "PAID", amount_paid |-> amount])

\* pay_customs_duty, after get_object_or_404.
PayLogic(c, amount) ==
    IF c.customs_status = "PAID"
    THEN Reject("AlreadyPaid", c)
    ELSE IF /\ c.customs_duty_amount # None
            /\ c.customs_duty_amount[1] # 0
            /\ amount < c.customs_duty_amount[1]
    THEN Reject("InsufficientPayment", c)
    ELSE Outcome("OK",
                 [c EXCEPT !.customs_status = "PAID",
                           !.customs_paid_at = NOW,
                           !.overall_status = "CUSTOMS_CLEARED"],
                 <<PaymentEntry(amount)>>, TRUE,
                 [status |-> "PAID", amount_paid |-> amount])

\* check_shipping_status answering without the audit entry.
ShippingLogic_NoLog(c) ==
    Outcome("OK", c, <<>>, FALSE, [shipping_status |-> c.shipping_status])

\* check_shipping_status, after get_object_or_404.
ShippingLogic(c) ==
    Outcome("OK", c, <<LogEntry("agent", "shipping_status_check")>>, FALSE,
            [shipping_status |-> c.shipping_status])

\* schedule_inspection without the already-scheduled guard.
ScheduleLogic_NoScheduledGuard(c) ==
    IF c.customs_status # "PAID"
    THEN Reject("CustomsNotCleared", c)
    ELSE Outcome("OK",
                 [c EXCEPT !.inspection_status = "SCHEDULED",
                           !.overall_status = "PENDING_INSPECTION"],
                 <<LogEntry("agent", "inspection_scheduled")>>, TRUE,
                 [inspection_status |-> "SCHEDULED"])

\* schedule_inspection without the customs guard.
ScheduleLogic_NoCustomsGuard(c) ==
    IF c.inspection_status = "SCHEDULED"
    THEN Reject("AlreadyScheduled", c)
    ELSE Outcome("OK",
                 [c EXCEPT !.inspection_status = "SCHEDULED",
                           !.overall_status = "PENDING_INSPECTION"],
                 <<LogEntry("agent", "inspection_scheduled")>>, TRUE,
                 [inspection_status |-> "SCHEDULED"])

\* schedule_inspection marking the inspection as under way.
ScheduleLogic_InProgress(c) ==
    IF c.customs_status # "PAID"
    THEN Reject("CustomsNotCleared", c)
    ELSE IF c.inspection_status = "SCHEDULED"
    THEN Reject("AlreadyScheduled", c)
    ELSE Outcome("OK",
                 [c EXCEPT !.inspection_status = "IN_PROGRESS",
                           !.overall_status = "PENDING_INSPECTION"],
                 <<LogEntry("agent", "inspection_scheduled")>>, TRUE,
                 [inspection_status |-> "IN_PROGRESS"])

\* schedule_inspection, after get_object_or_404.
ScheduleLogic(c) ==
    IF c.customs_status # "PAID"
    THEN Reject("CustomsNotCleared", c)
    ELSE IF c.inspection_status = "SCHEDULED"
    THEN Reject("AlreadyScheduled", c)
    ELSE Outcome("OK",
                 [c EXCEPT !.inspection_status = "SCHEDULED",
                           !.overall_status = "PENDING_INSPECTION"],
                 <<LogEntry("agent", "inspection_scheduled")>>, TRUE,
                 [inspection_status |-> "SCHEDULED"])

\* complete_inspection recording the inspection result without moving
\* overall_status.
CompleteLogic_KeepOverall(c, passed) ==
    IF passed
    THEN Outcome("OK",
                 [c EXCEPT !.inspection_status = "PASSED"],
                 <<LogEntry("npa_inspector", "inspection_passed")>>, TRUE,
                 [status |-> "PASSED"])
    ELSE Outcome("OK",
                 [c EXCEPT !.inspection_status = "FAILED"],
                 <<LogEntry("npa_inspector", "inspection_failed")>>, TRUE,
                 [status |-> "FAILED"])

\* complete_inspection failing the container without recording the failed
\* inspection.
CompleteLogic_FailKeepsInspection(c, passed) ==
    IF passed
    THEN Outcome("OK",
                 [c EXCEPT !.inspection_status = "PASSED",
                           !.overall_status = "INSPECTION_PASSED"],
                 <<LogEntry("npa_inspector", "inspection_passed")>>, TRUE,
                 [status |-> "PASSED"])
    ELSE Outcome("OK",
                 [c EXCEPT !.overall_status = "FAILED"],
                 <<LogEntry("npa_inspector", "inspection_failed")>>, TRUE,
                 [status |-> "FAILED"])

\* complete_inspection, after get_object_or_404.
CompleteLogic(c, passed) ==
    IF passed
    THEN Outcome("OK",
                 [c EXCEPT !.inspection_status = "PASSED",
                           !.overall_status = "INSPECTION_PASSED"],
                 <<LogEntry("npa_inspector", "inspection_passed")>>, TRUE,
                 [status |-> "PASSED"])
    ELSE Outcome("OK",
                 [c EXCEPT !.inspection_status = "FAILED",
                           !.overall_status = "FAILED"],
                 <<LogEntry("npa_inspector", "inspection_failed")>>, TRUE,
                 [status |-> "FAILED"])

\* release_container guarding on the overall status instead of the
\* inspection status.
ReleaseLogic_OverallGuard(c) ==
    IF c.overall_status # "INSPECTION_PASSED"
    THEN Reject("InspectionNotPassed", c)
    ELSE Outcome("OK",
                 [c EXCEPT !.overall_status = "RELEASED",
                           !.shipping_status = "READY_FOR_PICKUP"],
                 <<LogEntry("agent", "container_released")>>, TRUE,
                 [status |-> "RELEASED", ready_for_pickup |-> TRUE])

\* release_container leaving shipping_status as it is.
ReleaseLogic_KeepsShipping(c) ==
    IF c.inspection_status # "PASSED"
    THEN Reject("InspectionNotPassed", c)
    ELSE Outcome("OK",
                 [c EXCEPT !.overall_status = "RELEASED"],
                 <<LogEntry("agent", "container_released")>>, TRUE,
                 [status |-> "RELEASED", ready_for_pickup |-> TRUE])

\* release_container with no guard on the inspection result.
ReleaseLogic_NoGuard(c) ==
    Outcome("OK",
            [c EXCEPT !.overall_status = "RELEASED",
                      !.shipping_status = "READY_FOR_PICKUP"],
            <<LogEntry("agent", "container_released")>>, TRUE,
            [status |-> "RELEASED", ready_for_pickup |-> TRUE])

\* release_container, after get_object_or_404.
ReleaseLogic(c) ==
    IF c.inspection_status # "PASSED"
    THEN Reject("InspectionNotPassed", c)
    ELSE Outcome("OK",
                 [c EXCEPT !.overall_status = "RELEASED",
                           !.shipping_status = "READY_FOR_PICKUP"],
                 <<LogEntry("agent", "container_released")>>, TRUE,
                 [status |-> "RELEASED", ready_for_pickup |-> TRUE])

\* upload_bill_of_lading without the lookup of an existing row.
UploadLogic_NoLookup(store, doc) ==
    IF ~doc.pdf
    THEN Reject("InvalidFileType", NewContainer(doc))
    ELSE IF ~doc.success
    THEN Reject("ParseFailure", NewContainer(doc))
    ELSE Outcome("OK", NewContainer(doc),
                 <<LogEntry("system", "document_upload")>>, FALSE,
                 [container_id |-> doc.container_id,
                  overall_status |-> "PENDING_VALIDATION"])

\* upload_bill_of_lading up to Container.objects.create: the file type and
\* parse checks, the lookup of an existing row, validate_container_data.
UploadLogic(store, doc) ==
    IF ~doc.pdf
    THEN Reject("InvalidFileType", NewContainer(doc))
    ELSE IF ~doc.success
    THEN Reject("ParseFailure", NewContainer(doc))
    ELSE IF doc.container_id \in DOMAIN store
    THEN Reject("DuplicateContainer", NewContainer(doc))
    ELSE Outcome("OK", NewContainer(doc),
                 <<LogEntry("system", "document_upload")>>, FALSE,
                 [container_id |-> doc.container_id,
                  overall_status |-> "PENDING_VALIDATION"])

(* ------------------------------ workers ------------------------------- *)

\* A worker that handles no request.
Idle == [pc |-> "idle"]

\* get_object_or_404 finding no row: the 404 response, nothing loaded.
NotFound(cid) == Reject("NotFound", [container_id |-> cid])

\* Audit entries in the table.
RECURSIVE SumLogs(_, _)
SumLogs(store, ids) ==
    IF ids = {} THEN 0
    ELSE LET k == CHOOSE x \in ids : TRUE
         IN  Len(store[k].logs) + SumLogs(store, ids \ {k})

TotalLogs == SumLogs(db, DOMAIN db)

\* Requests in flight that have an entry still to append.
PendingLogs == Cardinality({w \in Workers : req[w].pc \in {"create", "add_log"}})

\* The caller who works towards the release of MAEU4567890: mode names the
\* request the caller makes next, "caller_done" that the release succeeded.
CallerModes ==
    {"caller_release", "caller_schedule", "caller_check", "caller_pay",
     "caller_complete", "caller_done"}

\* The request (op, cid, amount, flag) is the one the caller makes next;
\* the payment is of the amount due that CheckCustomsStatus reported.
Attempt(op, cid, amount, flag) ==
    /\ cid = IdMAEU
    /\ cid \in DOMAIN db
    /\ CASE mode = "caller_release"  -> op = "release_container"
         [] mode = "caller_schedule" -> op = "schedule_inspection"
         [] mode = "caller_check"    -> op = "check_customs_status"
         [] mode = "caller_pay"      ->
                /\ op = "pay_customs_duty"
                /\ db[cid].customs_duty_amount # None
                /\ amount = db[cid].customs_duty_amount[1]
         [] mode = "caller_complete" -> op = "complete_inspection" /\ flag
         [] OTHER                    -> FALSE

\* What the caller does after the response result to request op: the
\* corrective request after a refusal, the next request of the clearance
\* after a success.  In every other mode nobody reacts to a response.
Reaction(op, result) ==
    IF mode \notin CallerModes THEN mode
    ELSE CASE op = "release_container" /\ result = "OK" -> "caller_done"
           [] op = "release_container" /\ result = "InspectionNotPassed" ->
                  "caller_schedule"
           [] op = "schedule_inspection" /\ result \in {"OK", "AlreadyScheduled"} ->
                  "caller_complete"
           [] op = "schedule_inspection" /\ result = "CustomsNotCleared" ->
                  "caller_check"
           [] op = "check_customs_status" /\ result = "OK" -> "caller_pay"
           [] op = "pay_customs_duty" /\ result \in {"OK", "AlreadyPaid"} ->
                  "caller_schedule"
           [] op = "pay_customs_duty" /\ result = "InsufficientPayment" ->
                  "caller_check"
           [] op = "complete_inspection" /\ result = "OK" -> "caller_release"
           [] OTHER -> mode

LogBudget ==
    \/ mode \in CallerModes
    \/ TotalLogs + PendingLogs <
           (CASE mode = "serial"   -> MaxLogs
              [] mode = "scenario" -> MaxScenarioLogs
              [] mode = "prelude"  -> MaxPreludeLogs
              [] OTHER             -> MaxOverlapLogs)

\* No other worker is handling a request.
Alone(w) == \A v \in Workers \ {w} : req[v].pc = "idle"

\* A request goes to the first free worker of the pool.
FirstFree(w) == req[w].pc = "idle" /\ \A v \in Workers : v < w => req[v].pc # "idle"

\* The request enters the handler: the row is loaded, the guards and the
\* in-memory assignments up to the first database write are done (o), and
\* pre remembers the table the request found.
Handle(w, op, cid, amount, flag, o) ==
    /\ FirstFree(w)
    /\ o.entry = <<>> \/ LogBudget
    /\ mode \in {"scenario", "prelude"} => cid # IdDEMO
    /\ mode \in CallerModes => Attempt(op, cid, amount, flag)
    /\ Alone(w) \/ (mode = "concurrent" /\ overlaps < MaxOverlaps)
    /\ overlaps' = IF Alone(w) THEN overlaps ELSE overlaps + 1
    /\ req' = [req EXCEPT ![w] =
                 [pc     |-> IF o.entry # <<>>
                             THEN (IF op = "upload_bill_of_lading" THEN "create" ELSE "add_log")
                             ELSE IF o.final THEN "save" ELSE "done",
                  op     |-> op,
                  cid    |-> cid,
                  amount |-> amount,
                  flag   |-> flag,
                  c      |-> o.c,
                  entry  |-> o.entry,
                  final  |-> o.final,
                  result |-> o.result,
                  resp   |-> o.resp,
                  pre    |-> db]]
    /\ UNCHANGED <<db, mode>>

UploadBillOfLading(w) ==
    \E doc \in Docs :
        Handle(w, "upload_bill_of_lading", doc.container_id, 0, FALSE,
               UploadLogic(db, doc))

\* Container.objects.create: the INSERT.  container_id is unique=True, so an
\* insert that finds the identifier taken raises IntegrityError, which the
\* handler's "except Exception" turns into the 500 response.
CreateInsert(w) ==
    /\ req[w].pc = "create"
    /\ IF req[w].cid \in DOMAIN db
       THEN /\ req' = [req EXCEPT ![w].pc = "done", ![w].result = "ServerError",
                                  ![w].resp = NoResp]
            /\ UNCHANGED <<db, mode, overlaps>>
       ELSE /\ db' = SaveRow(db, req[w].c)
            /\ req' = [req EXCEPT ![w].pc = "add_log"]
            /\ UNCHANGED <<mode, overlaps>>

ValidateContainer(w) ==
    \E cid \in Ids, force \in BOOLEAN :
        Handle(w, "validate_container", cid, 0, force,
               IF cid \in DOMAIN db THEN ValidateLogic(db[cid], force) ELSE NotFound(cid))

CheckCustomsStatus(w) ==
    \E cid \in Ids :
        Handle(w, "check_customs_status", cid, 0, FALSE,
               IF cid \in DOMAIN db THEN CheckCustomsLogic(db[cid]) ELSE NotFound(cid))

PayCustomsDuty(w) ==
    \E cid \in Ids, amount \in PayAmounts :
        Handle(w, "pay_customs_duty", cid, amount, FALSE,
               IF cid \in DOMAIN db THEN PayLogic(db[cid], amount) ELSE NotFound(cid))

CheckShippingStatus(w) ==
    \E cid \in Ids :
        Handle(w, "check_shipping_status", cid, 0, FALSE,
               IF cid \in DOMAIN db THEN ShippingLogic(db[cid]) ELSE NotFound(cid))

ScheduleInspection(w) ==
    \E cid \in Ids :
        Handle(w, "schedule_inspection", cid, 0, FALSE,
               IF cid \in DOMAIN db THEN ScheduleLogic(db[cid]) ELSE NotFound(cid))

CompleteInspection(w) ==
    \E cid \in Ids, passed \in BOOLEAN :
        Handle(w, "complete_inspection", cid, 0, passed,
               IF cid \in DOMAIN db THEN CompleteLogic(db[cid], passed) ELSE NotFound(cid))

ReleaseContainer(w) ==
    \E cid \in Ids :
        Handle(w, "release_container", cid, 0, FALSE,
               IF cid \in DOMAIN db THEN ReleaseLogic(db[cid]) ELSE NotFound(cid))

\* Container.add_log: append the entry to the instance's logs and save().
AddLog(w) ==
    /\ req[w].pc = "add_log"
    /\ LET c1 == add_log(req[w].c, req[w].entry[1])
       IN  /\ db' = SaveRow(db, c1)
           /\ req' = [req EXCEPT ![w].c = c1,
                                 ![w].pc = IF req[w].final THEN "save" ELSE "done"]
    /\ UNCHANGED <<mode, overlaps>>

\* The handler's closing container.save().
Save(w) ==
    /\ req[w].pc = "save"
    /\ db' = SaveRow(db, req[w].c)
    /\ req' = [req EXCEPT ![w].pc = "done"]
    /\ UNCHANGED <<mode, overlaps>>

\* The response has been returned; the worker is free again.
Return(w) ==
    /\ req[w].pc = "done"
    /\ req' = [req EXCEPT ![w] = Idle]
    /\ mode' = Reaction(req[w].op, req[w].result)
    /\ UNCHANGED <<db, overlaps>>

WorkerNext(w) ==
    \/ UploadBillOfLading(w)
    \/ CreateInsert(w)
    \/ ValidateContainer(w)
    \/ CheckCustomsStatus(w)
    \/ PayCustomsDuty(w)
    \/ CheckShippingStatus(w)
    \/ ScheduleInspection(w)
    \/ CompleteInspection(w)
    \/ ReleaseContainer(w)
    \/ AddLog(w)
    \/ Save(w)
    \/ Return(w)

\* The empty table and a free worker pool.
Start ==
    /\ db = [k \in {} |-> NULL]
    /\ req = [w \in Workers |-> Idle]
    /\ overlaps = 0

\* Requests interleave at their database accesses: the handlers hold no
\* lock and open no transaction.
Init == Start /\ mode = "concurrent"

\* Requests are served one at a time.
SeqInit == Start /\ mode = "serial"

\* Requests are served one at a time and name no container but MAEU4567890.
ScenarioInit == Start /\ mode = "scenario"

Next == \E w \in Workers : WorkerNext(w)

\* Requests are served one at a time and name no container but MAEU4567890,
\* until a caller takes the container over.
RecoveryInit == Start /\ mode = "prelude"

\* With no request in flight, a caller sets out to have the container
\* released; from here on only this caller makes requests.
CallerTakesOver ==
    /\ mode = "prelude"
    /\ IdMAEU \in DOMAIN db
    /\ \A w \in Workers : req[w].pc = "idle"
    /\ mode' = "caller_release"
    /\ UNCHANGED <<db, req, overlaps>>

RecoveryNext == Next \/ CallerTakesOver

\* validate_container_data applied on its own: each worker holds a
\* dictionary and computes the error list and, as upload_bill_of_lading
\* does, document_validated = (len(validation_errors) == 0).
ValidationInit ==
    /\ db = [k \in {} |-> NULL]
    /\ overlaps = 0
    /\ mode = "validation"
    /\ \E data \in Records :
          req = [w \in Workers |-> [pc |-> "record", data |-> data]]

ValidateRecord(w) ==
    /\ req[w].pc = "record"
    /\ req' = [req EXCEPT ![w] =
                 [pc                 |-> "validated",
                  data               |-> req[w].data,
                  validation_errors  |-> validate_container_data(req[w].data),
                  document_validated |->
                      Len(validate_container_data(req[w].data)) = 0]]
    /\ UNCHANGED <<db, mode, overlaps>>

ValidationNext == \E w \in Workers : ValidateRecord(w)

Spec == Init /\ [][Next]_vars

SeqSpec == SeqInit /\ [][Next]_vars

ScenarioSpec == ScenarioInit /\ [][Next]_vars

\* Once the caller is in charge no step is put off for ever: a request in
\* the handler runs to its response, and the caller goes on to the next
\* request.
RecoverySpec ==
    /\ RecoveryInit
    /\ [][RecoveryNext]_vars
    /\ WF_vars(mode \in CallerModes /\ Next)

ValidationSpec == ValidationInit /\ [][ValidationNext]_vars

(* ------------------------------ properties ---------------------------- *)

\* The worker has returned its response and not yet taken another request.
Done(w) == req[w].pc = "done"

\* The request of worker w found a row for its container.
Found(w) == Done(w) /\ req[w].cid \in DOMAIN req[w].pre

\* The row the request of worker w found, and the row stored now.
Before(w) == req[w].pre[req[w].cid]

After(w) == db[req[w].cid]

GuardErrors ==
    {"NotFound", "DuplicateContainer", "AlreadyPaid", "InsufficientPayment",
     "CustomsNotCleared", "AlreadyScheduled", "InspectionNotPassed"}

\* C1: two PayCustomsDuty requests on the same container that overlap never
\* both succeed.
C1_NoDoublePayment ==
    \A w1, w2 \in Workers :
        (/\ w1 # w2
         /\ Done(w1) /\ Done(w2)
         /\ req[w1].op = "pay_customs_duty" /\ req[w2].op = "pay_customs_duty"
         /\ req[w1].cid = req[w2].cid)
        => ~(req[w1].result = "OK" /\ req[w2].result = "OK")

\* C2: a request that returns one of the errors NotFound, DuplicateContainer,
\* AlreadyPaid, InsufficientPayment, CustomsNotCleared, AlreadyScheduled or
\* InspectionNotPassed leaves the table as it found it: no row is created
\* and no column of any row, logs included, has changed.
C2_ErrorLeavesStoreUnchanged ==
    \A w \in Workers :
        (Done(w) /\ req[w].result \in GuardErrors) => db = req[w].pre

\* A request on one container was refused with AlreadyScheduled while the
\* table holds a second container as well.
C2_Witness ==
    \E w \in Workers :
        /\ Done(w)
        /\ req[w].result = "AlreadyScheduled"
        /\ Cardinality(DOMAIN db) = 2

\* The stages of overall_status in workflow order.
Rank(s) ==
    CASE s = "PENDING_VALIDATION" -> 1
      [] s = "VALIDATED"          -> 2
      [] s = "PENDING_CUSTOMS"    -> 3
      [] s = "CUSTOMS_CLEARED"    -> 4
      [] s = "PENDING_INSPECTION" -> 5
      [] s = "INSPECTION_PASSED"  -> 6
      [] s = "RELEASED"           -> 7
      [] OTHER                    -> 0

\* C3: no request moves overall_status to an earlier stage of
\* PENDING_VALIDATION < VALIDATED < CUSTOMS_CLEARED < PENDING_INSPECTION <
\* INSPECTION_PASSED < RELEASED (changes into or out of FAILED set aside).
C3_OverallOnlyForward ==
    \A w \in Workers :
        (Found(w) /\ Before(w).overall_status # "FAILED"
                  /\ After(w).overall_status # "FAILED")
        => Rank(After(w).overall_status) >= Rank(Before(w).overall_status)

\* C4: once overall_status is RELEASED or FAILED no request changes it.
C4_TerminalStatesStay ==
    \A w \in Workers :
        (Found(w) /\ Before(w).overall_status \in {"RELEASED", "FAILED"})
        => After(w).overall_status = Before(w).overall_status

\* The payment of worker w is below the duty assessed for its container.
Underpays(w) ==
    /\ Found(w)
    /\ req[w].op = "pay_customs_duty"
    /\ Before(w).customs_duty_amount # None
    /\ req[w].amount < Before(w).customs_duty_amount[1]

\* C5 as stated: PayCustomsDuty with an amount below an assessed duty always
\* fails with InsufficientPayment and leaves customs_status unchanged.
C5_UnderpaymentAlwaysInsufficient ==
    \A w \in Workers :
        Underpays(w) =>
            /\ req[w].result = "InsufficientPayment"
            /\ After(w).customs_status = Before(w).customs_status

\* C5 amended: PayCustomsDuty with an amount below an assessed duty always
\* fails and leaves customs_status unchanged; it fails with
\* InsufficientPayment when customs_status is not PAID and with AlreadyPaid
\* when it is.
C5_UnderpaymentFails ==
    \A w \in Workers :
        Underpays(w) =>
            /\ req[w].result =
                 (IF Before(w).customs_status = "PAID"
                  THEN "AlreadyPaid" ELSE "InsufficientPayment")
            /\ After(w).customs_status = Before(w).customs_status

\* An underpayment of an assessed, unpaid duty was refused.
C5_Witness ==
    \E w \in Workers :
        /\ Underpays(w)
        /\ Before(w).customs_status = "PAYMENT_REQUIRED"
        /\ req[w].result = "InsufficientPayment"

\* C6: PayCustomsDuty with an amount not below the assessed duty on a
\* container not yet PAID succeeds, sets customs_status = PAID, stamps
\* customs_paid_at, sets overall_status = CUSTOMS_CLEARED and appends exactly
\* one customs_payment entry; a container that is PAID stays PAID through
\* every request, and every PayCustomsDuty on a PAID container fails with
\* AlreadyPaid whatever the amount.
C6_PaymentSucceedsOnce ==
    \A w \in Workers :
        /\ (/\ Found(w)
            /\ req[w].op = "pay_customs_duty"
            /\ Before(w).customs_status # "PAID"
            /\ Before(w).customs_duty_amount # None
            /\ req[w].amount >= Before(w).customs_duty_amount[1])
           => /\ req[w].result = "OK"
              /\ After(w) = [Before(w) EXCEPT
                               !.customs_status = "PAID",
                               !.customs_paid_at = NOW,
                               !.overall_status = "CUSTOMS_CLEARED",
                               !.logs = Append(Before(w).logs,
                                               PaymentEntry(req[w].amount))]
        /\ (Found(w) /\ req[w].op = "pay_customs_duty"
                     /\ Before(w).customs_status = "PAID")
           => req[w].result = "AlreadyPaid"
        /\ Done(w) =>
              \A k \in DOMAIN req[w].pre :
                  req[w].pre[k].customs_status = "PAID" => db[k].customs_status = "PAID"

\* A payment of the full assessed duty was refused because the container
\* had been paid for before.
C6_Witness ==
    \E w \in Workers :
        /\ Found(w)
        /\ req[w].op = "pay_customs_duty"
        /\ Before(w).customs_duty_amount # None
        /\ req[w].amount >= Before(w).customs_duty_amount[1]
        /\ Len(Before(w).logs) >= 3
        /\ req[w].result = "AlreadyPaid"

\* C7: ScheduleInspection fails with CustomsNotCleared whenever
\* customs_status is not PAID; on a PAID container whose inspection is not
\* SCHEDULED (as it is right after the payment) it succeeds, setting
\* inspection_status = SCHEDULED and overall_status = PENDING_INSPECTION and
\* appending one inspection_scheduled entry; and a ScheduleInspection issued
\* right after a successful one fails with AlreadyScheduled.
C7_ScheduleGuards ==
    \A w \in Workers :
        /\ (Found(w) /\ req[w].op = "schedule_inspection")
           => /\ Before(w).customs_status # "PAID"
                 => req[w].result = "CustomsNotCleared"
              /\ (/\ Before(w).customs_status = "PAID"
                  /\ Before(w).inspection_status # "SCHEDULED")
                 => /\ req[w].result = "OK"
                    /\ After(w) = [Before(w) EXCEPT
                                     !.inspection_status = "SCHEDULED",
                                     !.overall_status = "PENDING_INSPECTION",
                                     !.logs = Append(Before(w).logs,
                                                LogEntry("agent", "inspection_scheduled"))]
              /\ req[w].result = "OK"
                 => ScheduleLogic(After(w)).result = "AlreadyScheduled"
        /\ (Found(w) /\ req[w].op = "pay_customs_duty" /\ req[w].result = "OK")
           => ScheduleLogic(After(w)).result = "OK"

\* A ScheduleInspection was refused with AlreadyScheduled on a paid
\* container.
C7_Witness ==
    \E w \in Workers :
        /\ Found(w)
        /\ req[w].op = "schedule_inspection"
        /\ Before(w).customs_status = "PAID"
        /\ req[w].result = "AlreadyScheduled"

\* C8: ReleaseContainer fails with InspectionNotPassed whenever
\* inspection_status is not PASSED; when it is PASSED it sets overall_status
\* = RELEASED and shipping_status = READY_FOR_PICKUP and appends one
\* container_released entry.
C8_ReleaseGuard ==
    \A w \in Workers :
        (Found(w) /\ req[w].op = "release_container")
        => IF Before(w).inspection_status # "PASSED"
           THEN req[w].result = "InspectionNotPassed"
           ELSE /\ req[w].result = "OK"
                /\ After(w) = [Before(w) EXCEPT
                                 !.overall_status = "RELEASED",
                                 !.shipping_status = "READY_FOR_PICKUP",
                                 !.logs = Append(Before(w).logs,
                                            LogEntry("agent", "container_released"))]

\* A container whose inspection had passed while its overall status had
\* moved on to another stage was released.
C8_Witness ==
    \E w \in Workers :
        /\ Found(w)
        /\ req[w].op = "release_container"
        /\ Before(w).overall_status # "INSPECTION_PASSED"
        /\ req[w].result = "OK"
        /\ After(w).overall_status = "RELEASED"

\* The row of container k is between its INSERT and the add_log of the
\* upload that creates it.
BeingCreated(k) ==
    \E w \in Workers :
        /\ req[w].pc = "add_log"
        /\ req[w].op = "upload_bill_of_lading"
        /\ req[w].cid = k

\* C9: a successful CreateContainer yields a row with overall_status =
\* PENDING_VALIDATION, shipping_status = DISCHARGED, customs_status =
\* PENDING, inspection_status = NOT_SCHEDULED, no duty amount and the single
\* log entry document_upload of actor system; and after any later requests
\* every container's logs hold exactly one document_upload entry, the first.
C9_CreatedStateAndUploadEntry ==
    /\ \A w \in Workers :
          (Done(w) /\ req[w].op = "upload_bill_of_lading" /\ req[w].result = "OK")
          => /\ After(w).overall_status = "PENDING_VALIDATION"
             /\ After(w).shipping_status = "DISCHARGED"
             /\ After(w).customs_status = "PENDING"
             /\ After(w).inspection_status = "NOT_SCHEDULED"
             /\ After(w).customs_duty_amount = None
             /\ After(w).logs = <<LogEntry("system", "document_upload")>>
    /\ \A k \in DOMAIN db :
          ~BeingCreated(k)
          => /\ Len(db[k].logs) >= 1
             /\ db[k].logs[1] = LogEntry("system", "document_upload")
             /\ \A i \in 2..Len(db[k].logs) : db[k].logs[i].action # "document_upload"

\* A container has gone through three logged requests after its upload.
C9_Witness ==
    \E k \in DOMAIN db :
        /\ Len(db[k].logs) = 4
        /\ db[k].overall_status = "RELEASED"

\* C10: CreateContainer (an upload whose document parsed) with an identifier
\* that already exists fails with DuplicateContainer whatever the other
\* extracted fields are, creates no second row and leaves the existing row
\* as it was.
C10_DuplicateRejected ==
    \A w \in Workers :
        (/\ Found(w)
         /\ req[w].op = "upload_bill_of_lading"
         /\ req[w].result \notin {"InvalidFileType", "ParseFailure"})
        => /\ req[w].result = "DuplicateContainer"
           /\ db = req[w].pre

\* An upload was refused as a duplicate although its extracted fields differ
\* from those of the stored row.
C10_Witness ==
    \E w \in Workers :
        /\ Found(w)
        /\ req[w].op = "upload_bill_of_lading"
        /\ req[w].result = "DuplicateContainer"
        /\ req[w].c.vessel_name # Before(w).vessel_name
        /\ req[w].c.cargo_weight # Before(w).cargo_weight

\* C11 as stated: the first CheckCustomsStatus on a container sets
\* customs_duty_amount; a second call right after it returns the same amount
\* and customs status as the first and changes no column of the row; and a
\* customs_duty_amount that is set is the same after every request.
C11_DutyAssessedOnce ==
    \A w \in Workers :
        /\ (/\ Found(w)
            /\ req[w].op = "check_customs_status"
            /\ Before(w).customs_duty_amount = None)
           => /\ After(w).customs_duty_amount # None
              /\ CheckCustomsLogic(After(w)).resp = req[w].resp
              /\ CheckCustomsLogic(After(w)).c = After(w)
              /\ ~CheckCustomsLogic(After(w)).final
        /\ Done(w) =>
              \A k \in DOMAIN req[w].pre :
                  req[w].pre[k].customs_duty_amount # None
                  => db[k].customs_duty_amount = req[w].pre[k].customs_duty_amount

\* C12 as stated: the first CheckCustomsStatus of a container whose cargo
\* weight is known, 0 included, stores weight * 100 * 0.10 as
\* customs_duty_amount, and stores the flat amount only when the weight is
\* null.
C12_DutyFromKnownWeight ==
    \A w \in Workers :
        (/\ Found(w)
         /\ req[w].op = "check_customs_status"
         /\ Before(w).customs_duty_amount = None)
        => After(w).customs_duty_amount =
              (IF Before(w).cargo_weight # None
               THEN Some(DutyFor(Before(w).cargo_weight[1]))
               ELSE Some(FlatDuty))

\* C13: CheckCustomsStatus on a container whose customs_status is PENDING
\* leaves it PAYMENT_REQUIRED; the customs status it returns is the stored
\* one, and the amount_due it returns is non-null exactly when that status
\* is PAYMENT_REQUIRED.
C13_AdvanceAndAmountDue ==
    \A w \in Workers :
        (Found(w) /\ req[w].op = "check_customs_status")
        => /\ Before(w).customs_status = "PENDING"
              => After(w).customs_status = "PAYMENT_REQUIRED"
           /\ req[w].resp.customs_status = After(w).customs_status
           /\ req[w].resp.amount_due # None
              <=> After(w).customs_status = "PAYMENT_REQUIRED"

\* A CheckCustomsStatus on a container paid for before any assessment set
\* the duty and returned no amount due, after another one had advanced a
\* PENDING container and returned its duty.
C13_Witness ==
    \E w \in Workers :
        /\ Found(w)
        /\ req[w].op = "check_customs_status"
        /\ Before(w).customs_status = "PAID"
        /\ Before(w).customs_duty_amount = None
        /\ After(w).customs_duty_amount # None
        /\ req[w].resp.amount_due = None
        /\ \E k \in DOMAIN db :
              /\ k # req[w].cid
              /\ db[k].customs_status = "PAYMENT_REQUIRED"
              /\ db[k].customs_duty_amount # None

\* The row of MAEU4567890 created from the bill that states 18500 kg, and
\* the row after each step of its clearance.
RowCreated ==
    add_log(NewContainer(Doc(TRUE, TRUE, IdMAEU, "MV LAGOS", "ACME LTD", TinOk,
                             Some(1850000))),
            LogEntry("system", "document_upload"))

RowAssessed ==
    [RowCreated EXCEPT !.customs_duty_amount = Some(18500000),
                       !.customs_status = "PAYMENT_REQUIRED"]

RowPaid ==
    [RowAssessed EXCEPT !.customs_status = "PAID",
                        !.customs_paid_at = NOW,
                        !.overall_status = "CUSTOMS_CLEARED",
                        !.logs = Append(@, PaymentEntry(18500000))]

RowScheduled ==
    [RowPaid EXCEPT !.inspection_status = "SCHEDULED",
                    !.overall_status = "PENDING_INSPECTION",
                    !.logs = Append(@, LogEntry("agent", "inspection_scheduled"))]

RowPassed ==
    [RowScheduled EXCEPT !.inspection_status = "PASSED",
                         !.overall_status = "INSPECTION_PASSED",
                         !.logs = Append(@, LogEntry("npa_inspector", "inspection_passed"))]

RowReleased ==
    [RowPassed EXCEPT !.overall_status = "RELEASED",
                      !.shipping_status = "READY_FOR_PICKUP",
                      !.logs = Append(@, LogEntry("agent", "container_released"))]

\* C14: on the container created with weight 18500 kg every step of the
\* clearance succeeds with the stated statuses: CheckCustomsStatus returns
\* amount_due 185000.00 and PAYMENT_REQUIRED; PayCustomsDuty(185000.00)
\* leaves customs PAID and overall CUSTOMS_CLEARED; ScheduleInspection leaves
\* overall PENDING_INSPECTION; CompleteInspection(passed) leaves overall
\* INSPECTION_PASSED; ReleaseContainer leaves overall RELEASED and shipping
\* READY_FOR_PICKUP.
C14_HappyPath ==
    \A w \in Workers :
        Found(w) =>
            /\ (req[w].op = "check_customs_status" /\ Before(w) = RowCreated)
               => /\ req[w].result = "OK"
                  /\ req[w].resp = [customs_status |-> "PAYMENT_REQUIRED",
                                    amount_due |-> Some(18500000)]
                  /\ After(w) = RowAssessed
            /\ (/\ req[w].op = "pay_customs_duty"
                /\ req[w].amount = 18500000
                /\ Before(w) = RowAssessed)
               => req[w].result = "OK" /\ After(w) = RowPaid
            /\ (req[w].op = "schedule_inspection" /\ Before(w) = RowPaid)
               => req[w].result = "OK" /\ After(w) = RowScheduled
            /\ (/\ req[w].op = "complete_inspection"
                /\ req[w].flag
                /\ Before(w) = RowScheduled)
               => req[w].result = "OK" /\ After(w) = RowPassed
            /\ (req[w].op = "release_container" /\ Before(w) = RowPassed)
               => req[w].result = "OK" /\ After(w) = RowReleased

\* The container has gone through the five steps in order and has been
\* released.
C14_Witness ==
    \E w \in Workers :
        /\ Found(w)
        /\ req[w].op = "release_container"
        /\ Before(w) = RowPassed
        /\ req[w].result = "OK"
        /\ After(w) = RowReleased

\* The columns whose changes the audit trail is to record.
Tracked(c) ==
    <<c.overall_status, c.customs_status, c.shipping_status,
      c.inspection_status, c.document_validated, c.customs_duty_amount>>

\* C15 as stated: a request that changes overall_status, customs_status,
\* shipping_status, inspection_status, document_validated or
\* customs_duty_amount of a container appends at least one entry to that
\* container's logs.
C15_EveryChangeLogged ==
    \A w \in Workers :
        Done(w) =>
            \A k \in DOMAIN req[w].pre :
                Tracked(db[k]) # Tracked(req[w].pre[k])
                => Len(db[k].logs) > Len(req[w].pre[k].logs)

\* s is an initial part of t.
IsPrefix(s, t) == Len(s) <= Len(t) /\ SubSeq(t, 1, Len(s)) = s

\* C16 as stated: with requests served one at a time, the logs a request
\* found on its container are an initial part of the logs it leaves, and a
\* successful request that changes a column of the row or creates the row
\* appends exactly one entry.
C16_AppendOnlyOneEntry ==
    \A w \in Workers :
        /\ Found(w) =>
              /\ IsPrefix(Before(w).logs, After(w).logs)
              /\ [After(w) EXCEPT !.logs = Before(w).logs] # Before(w)
                 => Len(After(w).logs) = Len(Before(w).logs) + 1
        /\ (Done(w) /\ req[w].op = "upload_bill_of_lading" /\ req[w].result = "OK")
           => Len(After(w).logs) = 1

\* The request of worker w is a ValidateContainer that found its container.
Validates(w) == Found(w) /\ req[w].op = "validate_container"

\* The guard of the validation run, on the row the request found.
MustValidate(w) == req[w].flag \/ ~Before(w).document_validated

\* C17: ValidateContainer runs the validation (and logs it) exactly when
\* force_revalidate is true or document_validated is false; otherwise it
\* appends no entry, changes no column of any row and returns the stored
\* document_validated and validation_errors.
C17_ValidateGuard ==
    \A w \in Workers :
        Validates(w) =>
            /\ Len(After(w).logs) > Len(Before(w).logs) <=> MustValidate(w)
            /\ ~MustValidate(w)
               => /\ db = req[w].pre
                  /\ req[w].resp = [is_valid |-> Before(w).document_validated,
                                    errors   |-> Before(w).validation_errors]

\* An unforced ValidateContainer on a container whose document was found
\* valid at upload was a pure read, the container still PENDING_VALIDATION.
C17_Witness ==
    \E w \in Workers :
        /\ Validates(w)
        /\ ~req[w].flag
        /\ Before(w).document_validated
        /\ Before(w).overall_status = "PENDING_VALIDATION"
        /\ After(w) = Before(w)
        /\ req[w].resp.is_valid

\* The errors validate_container_data finds in the row the request found.
ErrorsFound(w) ==
    validate_container_data([container_id  |-> Before(w).container_id,
                             vessel_name   |-> Before(w).vessel_name,
                             importer_name |-> Before(w).importer_name,
                             tin           |-> Before(w).tin])

\* C18: a ValidateContainer that runs the validation and finds no error
\* sets document_validated and overall_status = VALIDATED and appends one
\* validation entry; one that finds an error clears document_validated,
\* leaves the overall, customs, shipping and inspection statuses as they
\* were and appends one validation_failed entry.
C18_ValidationRun ==
    \A w \in Workers :
        (Validates(w) /\ MustValidate(w)) =>
            IF ErrorsFound(w) = <<>>
            THEN After(w) = [Before(w) EXCEPT
                               !.document_validated = TRUE,
                               !.validation_errors = <<>>,
                               !.overall_status = "VALIDATED",
                               !.logs = Append(@, LogEntry("agent", "validation"))]
            ELSE After(w) = [Before(w) EXCEPT
                               !.document_validated = FALSE,
                               !.validation_errors = ErrorsFound(w),
                               !.logs = Append(@, LogEntry("agent", "validation_failed"))]

\* A validation that failed left a paid container CUSTOMS_CLEARED and PAID.
C18_Witness ==
    \E w \in Workers :
        /\ Validates(w)
        /\ MustValidate(w)
        /\ ErrorsFound(w) # <<>>
        /\ Before(w).overall_status = "CUSTOMS_CLEARED"
        /\ After(w).overall_status = "CUSTOMS_CLEARED"
        /\ After(w).customs_status = "PAID"
        /\ ~After(w).document_validated
        /\ After(w).logs[Len(After(w).logs)] = LogEntry("agent", "validation_failed")

\* The text is four upper-case letters followed by seven digits.
FourLettersSevenDigits(s) ==
    /\ Len(Chars(s)) = 11
    /\ \A i \in 1..4 : Chars(s)[i] \in UpperCase
    /\ \A i \in 5..11 : Chars(s)[i] \in Digits

\* Worker w has validated its dictionary.
Validated(w) == req[w].pc = "validated"

C20_ShippingCheckOnlyLogs ==
    \A w \in Workers :
        (Found(w) /\ req[w].op = "check_shipping_status")
        => /\ req[w].result = "OK"
           /\ req[w].resp.shipping_status = Before(w).shipping_status
           /\ After(w) = [Before(w) EXCEPT
                            !.logs = Append(@, LogEntry("agent", "shipping_status_check"))]

\* A CheckShippingStatus on a container with an assessed duty and a document
\* found invalid was logged and left the duty as assessed.
C20_Witness ==
    \E w \in Workers :
        /\ Found(w)
        /\ req[w].op = "check_shipping_status"
        /\ Before(w).customs_duty_amount # None
        /\ Before(w).validation_errors # <<>>
        /\ Len(After(w).logs) = Len(Before(w).logs) + 1
        /\ After(w).customs_duty_amount = Before(w).customs_duty_amount

\* The requests on container k that have completed after appending an entry
\* to its logs.
LoggedBy(k) ==
    {w \in Workers : /\ Done(w)
                     /\ req[w].cid = k
                     /\ req[w].entry # <<>>
                     /\ req[w].result = "OK"}

\* The number of entries the request of worker w found in the logs of k.
FoundLogs(w, k) ==
    IF k \in DOMAIN req[w].pre THEN Len(req[w].pre[k].logs) ELSE 0

\* The fewest entries any request of LoggedBy(k) found.
LeastFound(k) ==
    CHOOSE n \in {FoundLogs(w, k) : w \in LoggedBy(k)} :
        \A w \in LoggedBy(k) : n <= FoundLogs(w, k)

\* C21 as stated: when requests interleave at their loads and saves, the
\* stored logs of a container never get shorter over a request, and they
\* hold an entry for every completed request that appended one: at least
\* as many entries as the earliest of those requests found plus one for
\* each of them.
C21_NoEntryLost ==
    /\ \A w \in Workers :
          Done(w) =>
              \A k \in DOMAIN req[w].pre :
                  Len(db[k].logs) >= Len(req[w].pre[k].logs)
    /\ \A k \in DOMAIN db :
          LoggedBy(k) # {}
          => Len(db[k].logs) >= LeastFound(k) + Cardinality(LoggedBy(k))

\* C22 as stated: once a PayCustomsDuty on a container has completed
\* successfully, the stored customs_status is PAID and customs_paid_at is
\* set, also after a request that loaded the row before the payment was
\* saved has finished.
C22_PaymentNotUndone ==
    \A w \in Workers :
        (Done(w) /\ req[w].op = "pay_customs_duty" /\ req[w].result = "OK")
        => /\ After(w).customs_status = "PAID"
           /\ After(w).customs_paid_at # NULL

\* C23 as stated: of two CreateContainer requests with the same identifier
\* of which the second ran its existence check before the first inserted,
\* exactly one succeeds and the other is rejected with DuplicateContainer.
C23_RacingCreatesRejected ==
    \A w1, w2 \in Workers :
        (/\ w1 # w2
         /\ Done(w1) /\ Done(w2)
         /\ req[w1].op = "upload_bill_of_lading"
         /\ req[w2].op = "upload_bill_of_lading"
         /\ req[w1].cid = req[w2].cid
         /\ req[w1].cid \notin DOMAIN req[w1].pre
         /\ req[w2].cid \notin DOMAIN req[w2].pre
         /\ req[w1].result \notin {"InvalidFileType", "ParseFailure"}
         /\ req[w2].result \notin {"InvalidFileType", "ParseFailure"})
        => {req[w1].result, req[w2].result} = {"OK", "DuplicateContainer"}

\* C24: with requests served one at a time, every stored container whose
\* inspection_status is SCHEDULED has customs_status = PAID.
C24_ScheduledImpliesPaid ==
    \A k \in DOMAIN db :
        db[k].inspection_status = "SCHEDULED" => db[k].customs_status = "PAID"

\* A container with a scheduled inspection has since been revalidated, so
\* that its overall_status is no longer PENDING_INSPECTION.
C24_Witness ==
    \E k \in DOMAIN db :
        /\ db[k].inspection_status = "SCHEDULED"
        /\ db[k].overall_status = "VALIDATED"
        /\ db[k].customs_status = "PAID"

\* C25 as stated: every stored container whose overall_status is RELEASED or
\* whose shipping_status is READY_FOR_PICKUP has customs_status = PAID.
C25_ReleasedImpliesPaid ==
    \A k \in DOMAIN db :
        (\/ db[k].overall_status = "RELEASED"
         \/ db[k].shipping_status = "READY_FOR_PICKUP")
        => db[k].customs_status = "PAID"

\* C26 as stated: a ValidateContainer that returns is_valid = true for a
\* container whose overall_status was PENDING_VALIDATION leaves it
\* VALIDATED, also when the document passed validation at creation and the
\* request does not force the revalidation.
C26_ValidAdvancesToValidated ==
    \A w \in Workers :
        (/\ Validates(w)
         /\ req[w].resp.is_valid
         /\ Before(w).overall_status = "PENDING_VALIDATION")
        => After(w).overall_status = "VALIDATED"

\* C27: document_validated and validation_errors of a container are after
\* every request what they were before it, and they are what
\* validate_container_data finds in the stored row; so a container created
\* with document_validated = false never becomes validated.
C27_ValidationResultFixed ==
    /\ \A w \in Workers :
          Done(w) =>
              \A k \in DOMAIN req[w].pre :
                  /\ db[k].document_validated = req[w].pre[k].document_validated
                  /\ db[k].validation_errors = req[w].pre[k].validation_errors
    /\ \A k \in DOMAIN db :
          /\ db[k].validation_errors =
                validate_container_data([container_id  |-> db[k].container_id,
                                         vessel_name   |-> db[k].vessel_name,
                                         importer_name |-> db[k].importer_name,
                                         tin           |-> db[k].tin])
          /\ db[k].document_validated <=> db[k].validation_errors = <<>>

\* A forced revalidation of a paid container created with an invalid
\* document has run and found it invalid again.
C27_Witness ==
    \E w \in Workers :
        /\ Validates(w)
        /\ req[w].flag
        /\ ~Before(w).document_validated
        /\ Before(w).customs_status = "PAID"
        /\ ~After(w).document_validated
        /\ After(w).validation_errors # <<>>
        /\ After(w).logs[Len(After(w).logs)].action = "validation_failed"

\* C28 as stated: in every stored container with customs_status = PAID and
\* a customs_duty_amount, the amount of the accepted payment (the one its
\* customs_payment entry records) is not below customs_duty_amount, whether
\* the payment came after or before the first CheckCustomsStatus.
C28_PaidCoversDuty ==
    \A k \in DOMAIN db :
        (db[k].customs_status = "PAID" /\ db[k].customs_duty_amount # None)
        => \A i \in 1..Len(db[k].logs) :
              db[k].logs[i].action = "customs_payment"
              => db[k].logs[i].amount >= db[k].customs_duty_amount[1]

\* The changes of customs_status the claim allows.
CustomsMoves ==
    {<<"PENDING", "PAYMENT_REQUIRED">>, <<"PAYMENT_REQUIRED", "PAID">>,
     <<"PENDING", "PAID">>}

\* C29: with requests served one at a time, a request leaves customs_status
\* as it was or moves it PENDING -> PAYMENT_REQUIRED, PAYMENT_REQUIRED ->
\* PAID or PENDING -> PAID, and never out of PAID; customs_paid_at is set
\* exactly when customs_status = PAID; customs_duty_amount is unset when
\* customs_status = PENDING and set when it is PAYMENT_REQUIRED.
C29_CustomsStatusPath ==
    /\ \A w \in Workers :
          Found(w) =>
              \/ After(w).customs_status = Before(w).customs_status
              \/ <<Before(w).customs_status, After(w).customs_status>> \in CustomsMoves
    /\ \A k \in DOMAIN db :
          /\ db[k].customs_paid_at # NULL <=> db[k].customs_status = "PAID"
          /\ db[k].customs_status = "PENDING" => db[k].customs_duty_amount = None
          /\ db[k].customs_status = "PAYMENT_REQUIRED"
             => db[k].customs_duty_amount # None

\* A payment has moved one container from PENDING straight to PAID while
\* the other container is PAYMENT_REQUIRED with its duty assessed.
C29_Witness ==
    \E w \in Workers :
        /\ Found(w)
        /\ req[w].op = "pay_customs_duty"
        /\ Before(w).customs_status = "PENDING"
        /\ After(w).customs_status = "PAID"
        /\ After(w).customs_paid_at = NOW
        /\ \E k \in DOMAIN db :
              /\ db[k].customs_status = "PAYMENT_REQUIRED"
              /\ db[k].customs_duty_amount # None

\* C30: a request that turns overall_status into FAILED is a
\* CompleteInspection with passed = false, and every stored container whose
\* overall_status is FAILED has inspection_status = FAILED.
C30_FailedOnlyByInspection ==
    /\ \A w \in Workers :
          (/\ Found(w)
           /\ Before(w).overall_status # "FAILED"
           /\ After(w).overall_status = "FAILED")
          => req[w].op = "complete_inspection" /\ ~req[w].flag
    /\ \A k \in DOMAIN db :
          db[k].overall_status = "FAILED" => db[k].inspection_status = "FAILED"

\* A request other than CompleteInspection has run on a container that a
\* failed inspection had made FAILED, and has left it FAILED.
C30_Witness ==
    \E w \in Workers :
        /\ Found(w)
        /\ req[w].op # "complete_inspection"
        /\ req[w].result = "OK"
        /\ Before(w).overall_status = "FAILED"
        /\ After(w).overall_status = "FAILED"
        /\ After(w).inspection_status = "FAILED"
        /\ \E i \in 1..Len(After(w).logs) :
              After(w).logs[i].action = "inspection_failed"

\* The logs of row c hold an entry with the given action.
HasEntry(c, action) == \E i \in 1..Len(c.logs) : c.logs[i].action = action

\* C31: shipping_status is DISCHARGED from creation until the first
\* successful ReleaseContainer and READY_FOR_PICKUP from then on: every row
\* has shipping_status READY_FOR_PICKUP when its logs hold a
\* container_released entry and DISCHARGED when they hold none, and no
\* request changes shipping_status back from READY_FOR_PICKUP.
C31_ShippingFollowsRelease ==
    /\ \A k \in DOMAIN db :
          db[k].shipping_status =
              (IF HasEntry(db[k], "container_released")
               THEN "READY_FOR_PICKUP" ELSE "DISCHARGED")
    /\ \A w \in Workers :
          (Found(w) /\ Before(w).shipping_status = "READY_FOR_PICKUP")
          => After(w).shipping_status = "READY_FOR_PICKUP"

\* A released container went through a failed inspection afterwards: the
\* request found READY_FOR_PICKUP and left it.
C31_Witness ==
    \E w \in Workers :
        /\ Found(w)
        /\ req[w].op = "complete_inspection"
        /\ req[w].result = "OK"
        /\ Before(w).shipping_status = "READY_FOR_PICKUP"
        /\ After(w).shipping_status = "READY_FOR_PICKUP"
        /\ After(w).overall_status = "FAILED"

\* C32: the status values no handler assigns are never stored: no row has
\* overall_status PENDING_CUSTOMS, customs_status CLEARED or REJECTED,
\* inspection_status IN_PROGRESS, or shipping_status IN_TRANSIT or ARRIVED.
C32_UnusedValuesUnreachable ==
    \A k \in DOMAIN db :
        /\ db[k].overall_status # "PENDING_CUSTOMS"
        /\ db[k].customs_status \notin {"CLEARED", "REJECTED"}
        /\ db[k].inspection_status # "IN_PROGRESS"
        /\ db[k].shipping_status \notin {"IN_TRANSIT", "ARRIVED"}

\* A container has been paid for, scheduled for inspection and failed it:
\* overall, customs and inspection status have left their values at creation.
C32_Witness ==
    \E k \in DOMAIN db :
        /\ db[k].overall_status = "FAILED"
        /\ db[k].customs_status = "PAID"
        /\ db[k].inspection_status = "FAILED"
        /\ HasEntry(db[k], "inspection_scheduled")

\* Every entry of row c with action later comes after an entry with action
\* earlier.
Preceded(c, later, earlier) ==
    \A i \in 1..Len(c.logs) :
        c.logs[i].action = later
        => \E j \in 1..(i - 1) : c.logs[j].action = earlier

\* C33: the audit log respects the workflow order: in the logs of every row
\* each container_released entry comes after an inspection_passed entry and
\* each inspection_scheduled entry comes after a customs_payment entry.
C33_LogsInWorkflowOrder ==
    \A k \in DOMAIN db :
        /\ Preceded(db[k], "container_released", "inspection_passed")
        /\ Preceded(db[k], "inspection_scheduled", "customs_payment")

\* The logs of a container hold an inspection_scheduled entry and, later, a
\* container_released entry.
C33_Witness ==
    \E k \in DOMAIN db :
        \E i, j \in 1..Len(db[k].logs) :
            /\ i < j
            /\ db[k].logs[i].action = "inspection_scheduled"
            /\ db[k].logs[j].action = "container_released"

\* The caller has been answered that the container is released, and the row
\* says so.
SeesReleased ==
    /\ mode = "caller_done"
    /\ db[IdMAEU].overall_status = "RELEASED"

\* C34: guard and conflict failures are recoverable: whatever requests the
\* container has been through, a caller who then works towards its release
\* and answers each refusal with its corrective request (CheckCustomsStatus
\* and PayCustomsDuty of the amount due after CustomsNotCleared,
\* ScheduleInspection and CompleteInspection with passed after
\* InspectionNotPassed, then ReleaseContainer again) eventually sees the
\* container RELEASED, given that no enabled step is put off for ever.
C34_CallerSeesReleased == (mode \in CallerModes) ~> SeesReleased

\* The caller took over a container that had failed its inspection and
\* held MaxPreludeLogs entries, and has seen it released after appending
\* the four entries of payment, scheduling, inspection and release.
C34_Witness ==
    /\ SeesReleased
    /\ HasEntry(db[IdMAEU], "inspection_failed")
    /\ Len(db[IdMAEU].logs) = MaxPreludeLogs + 4

====
